---- MODULE Spec2Model ----
(***************************************************************************)
(* pink-elevenlabs (src/main.go): one command-line invocation of the       *)
(* ElevenLabs client -- "tts", "voice" or "--health" -- as a state machine. *)
(* The flag parser is outside the model: an invocation starts with the      *)
(* parsed options (voice override, format, positional argument present).    *)
(* Strings that the claims inspect are sequences of string tokens, so that  *)
(* formatting (fmt.Errorf, %d, %s) is concatenation and can be searched.    *)
(***************************************************************************)
EXTENDS Integers, Sequences, FiniteSets, TLC

VARIABLES
    pc,          \* position of the process in main.go
    cmd,         \* os.Args[1]: "tts", "voice", "--health" ("" before main runs)
    voiceOpt,    \* *voice, the -v/--voice flag ("" when not given)
    format,      \* *format, the -f/--format flag
    params,      \* the float flags of tts: "finite" or "nan" (json.Marshal rejects NaN)
    srcState,    \* the input path of voice: "missing", "noperm", "directory", "file"
    env0,        \* the environment the process was started with
    env,         \* process environment now: name -> value, or Absent
    exeFile,     \* the .env file next to the executable
    cwdFile,     \* the .env file in the working directory
    exeErr,      \* os.Executable() returns an error
    envReads,    \* names passed to os.Getenv so far
    voiceID,     \* local voiceID of cmdTTS / cmdVoice
    apiKey,      \* local apiKey of textToSpeech / voiceChange
    apiFormat,   \* local apiFormat
    srcOpen,     \* inputFile is open
    request,     \* the HTTP request handed to client.Do
    resp,        \* what client.Do returned
    netCalls,    \* number of client.Do calls
    err,         \* the error returned by textToSpeech / voiceChange (<<>> is nil)
    dirs,        \* how many ancestor directories of the output path exist
    outFile,     \* the file at the output path
    events,      \* otel events emitted, in order
    stderr,      \* lines written to os.Stderr
    stdout,      \* lines written to os.Stdout
    exitCode,    \* process exit status, -1 while running
    healthDone,  \* checkHealth has returned
    healthResult,\* what checkHealth returned
    steps        \* orchestration steps executed, in order

inputs == <<cmd, voiceOpt, format, params, srcState>>
config == <<env0, exeFile, cwdFile, exeErr>>
locals == <<voiceID, apiKey, apiFormat, srcOpen>>
net    == <<request, resp, netCalls>>
disk   == <<dirs, outFile>>
out    == <<events, stderr, stdout, exitCode>>
health == <<healthDone, healthResult>>
vars   == <<pc, inputs, config, env, envReads, locals, net, err, disk, out, health, steps>>

----------------------------------------------------------------------------
(* Bounds *)
MaxBodyLen == 1      \* longest response body, in bytes
PathDepth  == 1      \* ancestor directories of the output path that may be missing

(* Program text *)
API_KEY   == "ELEVENLABS_API_KEY"
TTS_VOICE == "ELEVENLABS_TTS_VOICE_ID"
VC_VOICE  == "ELEVENLABS_VOICE_CHANGE_ID"
EnvNames  == {API_KEY, TTS_VOICE, VC_VOICE}

defaultTTSModel   == "eleven_v3"
defaultVoiceModel == "eleven_multilingual_sts_v2"

Absent == "<unset>"

\* var outputFormats = map[string]string{...}: the pairs of the map.
outputFormats ==
    { <<"opus", "opus_48000_96">>, <<"mp3", "mp3_44100_128">>, <<"pcm", "pcm_44100">> }

\* apiFormat, ok := outputFormats[format]
FormatOK(f) == \E p \in outputFormats : p[1] = f
FormatToken(f) == IF FormatOK(f) THEN (CHOOSE p \in outputFormats : p[1] = f)[2] ELSE ""

getDefaultTTSOutput   == "<tmp>/speech.ogg"
getDefaultVoiceOutput == "<tmp>/voice_changed.ogg"

----------------------------------------------------------------------------
(* Environment *)

\* os.Getenv: the value, "" when the name is not set.
Getenv(e, name) == IF e[name] = Absent THEN "" ELSE e[name]

\* godotenv.Load(path): a missing file is an error the caller drops; otherwise
\* every name of the file that the environment does not have yet (an empty
\* value counts as having it) is set; names already present are kept.
godotenvLoad(e, file) ==
    IF ~file.exists THEN e
    ELSE [n \in EnvNames |->
            IF e[n] = Absent /\ file.vars[n] # Absent THEN file.vars[n] ELSE e[n]]

\* loadEnv with the two loads in the other order.
loadEnvCwdFirst(e, xerr, xfile, cfile) ==
    LET e1 == godotenvLoad(e, cfile) IN IF xerr THEN e1 ELSE godotenvLoad(e1, xfile)

\* loadEnv(): the executable's .env first (skipped when os.Executable fails),
\* then the working directory's.
loadEnv(e, xerr, xfile, cfile) ==
    LET e1 == IF xerr THEN e ELSE godotenvLoad(e, xfile) IN godotenvLoad(e1, cfile)

LoadedEnv == loadEnv(env, exeErr, exeFile, cwdFile)

----------------------------------------------------------------------------
(* Text *)

Digits == <<"0", "1", "2", "3", "4", "5", "6", "7", "8", "9">>

\* %d of a non-negative int: its decimal digits.
RECURSIVE Itoa(_)
Itoa(n) == IF n < 10 THEN <<Digits[n + 1]>> ELSE Itoa(n \div 10) \o <<Digits[(n % 10) + 1]>>

\* fmt.Errorf("API error %d: %s", resp.StatusCode, string(body)) without the body.
APIErrorNoBody(status, body) == <<"API error ">> \o Itoa(status)

\* fmt.Errorf("API error %d: %s", resp.StatusCode, string(body))
APIError(status, body) == <<"API error ">> \o Itoa(status) \o <<": ">> \o body

\* the "<NAME> not found" event and stderr line of getAPIKey / getTTSVoiceID / getVoiceChangeID
NotFoundEvent(name) == [level |-> "error", name |-> <<name, " not found">>, attrs |-> <<>>]
NotFoundLine(name)  == <<"ERROR: ", name, " not found in environment">>

Event(level, name, attrs) == [level |-> level, name |-> <<name>>, attrs |-> attrs]

----------------------------------------------------------------------------
(* Inputs *)

Values     == {"", "val"}
Formats    == {"opus", "mp3", "pcm", "OPUS", "wav"}
VoiceOpts  == {"", "override"}
SrcStates  == {"missing", "noperm", "directory", "file"}
BodyBytes  == {"x", "4"}
Statuses   == {200, 204, 401}
Text       == <<"h", "i">>
OldData    == <<"o", "l", "d">>

Bodies == UNION { [1..k -> BodyBytes] : k \in 0..MaxBodyLen }

NoFile == [exists |-> FALSE, vars |-> [n \in EnvNames |-> Absent]]
EnvFile(fn) == [exists |-> TRUE, vars |-> fn]
ExeFiles == { NoFile,
              EnvFile([n \in EnvNames |-> "exe"]),
              EnvFile([n \in EnvNames |-> IF n = API_KEY THEN "exe" ELSE Absent]) }
CwdFiles == { NoFile,
              EnvFile([n \in EnvNames |-> "cwd"]),
              EnvFile([n \in EnvNames |-> IF n = API_KEY THEN "cwd" ELSE Absent]) }

NoRequest == [method |-> "", path |-> "", voice |-> "", output_format |-> "",
              key |-> "", body |-> <<>>]
NoResponse == [ok |-> FALSE, status |-> 0, body |-> <<>>]
Responses == { [ok |-> TRUE, status |-> s, body |-> b] : s \in Statuses, b \in Bodies }

Init ==
    /\ pc = "main"
    /\ cmd = "" /\ voiceOpt = "" /\ format = "" /\ params = "" /\ srcState = ""
    /\ env0 \in [EnvNames -> Values \cup {Absent}]
    /\ env = env0
    /\ \/ exeErr = FALSE /\ exeFile \in ExeFiles
       \/ exeErr = TRUE /\ exeFile = NoFile
    /\ cwdFile \in CwdFiles
    /\ envReads = {}
    /\ voiceID = "" /\ apiKey = "" /\ apiFormat = "" /\ srcOpen = FALSE
    /\ request = NoRequest /\ resp = NoResponse /\ netCalls = 0
    /\ err = <<>>
    /\ \/ dirs \in 0..PathDepth /\ outFile = [exists |-> FALSE, data |-> <<>>]
       \/ dirs = PathDepth /\ outFile = [exists |-> TRUE, data |-> OldData]
    /\ events = <<>> /\ stderr = <<>> /\ stdout = <<>> /\ exitCode = -1
    /\ healthDone = FALSE /\ healthResult = FALSE
    /\ steps = <<>>

----------------------------------------------------------------------------
(* main *)

\* main: dispatch on os.Args[1]; the flags of the subcommand are parsed.
main ==
    /\ pc = "main"
    /\ \E c \in {"tts", "voice", "--health"} :
         /\ cmd' = c
         /\ pc' = CASE c = "tts" -> "cmdTTS" [] c = "voice" -> "cmdVoice" [] OTHER -> "checkHealth"
         /\ IF c = "--health"
              THEN voiceOpt' = "" /\ format' = ""
              ELSE voiceOpt' \in VoiceOpts /\ format' \in Formats
         /\ IF c = "tts" THEN params' \in {"finite", "nan"} ELSE params' = ""
         /\ IF c = "voice" THEN srcState' \in SrcStates ELSE srcState' = ""
    /\ UNCHANGED <<config, env, envReads, locals, net, err, disk, out, health, steps>>

----------------------------------------------------------------------------
(* Shared steps.  getAPIKey, getTTSVoiceID and getVoiceChangeID are the same  *)
(* function over three names; textToSpeech and voiceChange share the code     *)
(* after client.Do.                                                           *)

\* The os.Exit(1) branch of getAPIKey / getTTSVoiceID / getVoiceChangeID.
ExitNotFound(name) ==
    /\ events' = Append(events, NotFoundEvent(name))
    /\ stderr' = Append(stderr, NotFoundLine(name))
    /\ exitCode' = 1
    /\ pc' = "exit"
    /\ UNCHANGED stdout

\* getAPIKey returning the empty key instead of exiting
getAPIKeyNoExit(here, next) ==
    /\ pc = here
    /\ steps' = Append(steps, "credential")
    /\ env' = LoadedEnv
    /\ envReads' = envReads \cup {API_KEY}
    /\ apiKey' = Getenv(LoadedEnv, API_KEY)
    /\ pc' = next
    /\ UNCHANGED <<inputs, config, voiceID, apiFormat, srcOpen, net, err, disk, out, health>>

\* getAPIKey(): loadEnv, os.Getenv, exit 1 when empty; called first in
\* textToSpeech and voiceChange.
getAPIKey(here, next) ==
    /\ pc = here
    /\ steps' = Append(steps, "credential")
    /\ env' = LoadedEnv
    /\ envReads' = envReads \cup {API_KEY}
    /\ LET key == Getenv(LoadedEnv, API_KEY) IN
         IF key = ""
           THEN ExitNotFound(API_KEY) /\ UNCHANGED apiKey
           ELSE apiKey' = key /\ pc' = next /\ UNCHANGED out
    /\ UNCHANGED <<inputs, config, voiceID, apiFormat, srcOpen, net, err, disk, health>>

\* voiceID := *voice; if voiceID == "" { voiceID = getTTSVoiceID() } with the
\* default read whether or not the flag was given.
ResolveVoiceAlwaysReadsDefault(here, next, name) ==
    /\ pc = here
    /\ steps' = Append(steps, "voice")
    /\ env' = LoadedEnv
    /\ envReads' = envReads \cup {name}
    /\ LET id == Getenv(LoadedEnv, name) IN
         IF id = ""
           THEN ExitNotFound(name) /\ UNCHANGED voiceID
           ELSE voiceID' = (IF voiceOpt # "" THEN voiceOpt ELSE id)
                /\ pc' = next /\ UNCHANGED out
    /\ UNCHANGED <<inputs, config, apiKey, apiFormat, srcOpen, net, err, disk, health>>

\* voiceID := *voice; if voiceID == "" { voiceID = getTTSVoiceID() }
\* (getVoiceChangeID in cmdVoice).
ResolveVoice(here, next, name) ==
    /\ pc = here
    /\ steps' = Append(steps, "voice")
    /\ IF voiceOpt # ""
         THEN /\ voiceID' = voiceOpt
              /\ pc' = next
              /\ UNCHANGED <<env, envReads, out>>
         ELSE /\ env' = LoadedEnv
              /\ envReads' = envReads \cup {name}
              /\ LET id == Getenv(LoadedEnv, name) IN
                   IF id = ""
                     THEN ExitNotFound(name) /\ UNCHANGED voiceID
                     ELSE voiceID' = id /\ pc' = next /\ UNCHANGED out
    /\ UNCHANGED <<inputs, config, apiKey, apiFormat, srcOpen, net, err, disk, health>>

\* the format lookup without the return on an unknown name
CheckFormatContinues(here, next, ret) ==
    /\ pc = here
    /\ steps' = Append(steps, "format")
    /\ IF FormatOK(format)
         THEN apiFormat' = FormatToken(format) /\ UNCHANGED err
         ELSE err' = <<"unsupported format: ", format>> /\ UNCHANGED apiFormat
    /\ pc' = next
    /\ UNCHANGED <<inputs, config, env, envReads, voiceID, apiKey, srcOpen, net, disk, out, health>>

\* the format lookup accepting any spelling of a known name
CheckFormatFolding(here, next, ret) ==
    /\ pc = here
    /\ steps' = Append(steps, "format")
    /\ LET f == IF format = "OPUS" THEN "opus" ELSE format IN
         IF FormatOK(f)
           THEN apiFormat' = FormatToken(f) /\ pc' = next /\ UNCHANGED err
           ELSE err' = <<"unsupported format: ", format>> /\ pc' = ret /\ UNCHANGED apiFormat
    /\ UNCHANGED <<inputs, config, env, envReads, voiceID, apiKey, srcOpen, net, disk, out, health>>

\* apiFormat, ok := outputFormats[format]; if !ok { return "unsupported format: %s" }
CheckFormat(here, next, ret) ==
    /\ pc = here
    /\ steps' = Append(steps, "format")
    /\ IF FormatOK(format)
         THEN apiFormat' = FormatToken(format) /\ pc' = next /\ UNCHANGED err
         ELSE err' = <<"unsupported format: ", format>> /\ pc' = ret /\ UNCHANGED apiFormat
    /\ UNCHANGED <<inputs, config, env, envReads, voiceID, apiKey, srcOpen, net, disk, out, health>>

\* resp, err := client.Do(req): one network call; no response, or a response.
ClientDo(req, next, ret) ==
    /\ request' = req
    /\ netCalls' = netCalls + 1
    /\ steps' = Append(steps, "network")
    /\ \/ /\ resp' = NoResponse
          /\ err' = <<"request failed: ", "transport">>
          /\ pc' = ret
       \/ /\ resp' \in Responses
          /\ UNCHANGED err
          /\ pc' = next

\* if resp.StatusCode != 200 { body, _ := io.ReadAll(resp.Body); return "API error %d: %s" }
CheckStatus(here, next, ret) ==
    /\ pc = here
    /\ IF resp.status # 200
         THEN err' = APIError(resp.status, resp.body) /\ pc' = ret
         ELSE UNCHANGED err /\ pc' = next
    /\ UNCHANGED <<inputs, config, env, envReads, locals, net, disk, out, health, steps>>

\* os.MkdirAll(filepath.Dir(outputPath), 0755)
MkdirAll(here, next, ret) ==
    /\ pc = here
    /\ \/ /\ dirs' = PathDepth
          /\ pc' = next
          /\ UNCHANGED err
       \/ /\ dirs < PathDepth
          /\ dirs' \in dirs..(PathDepth - 1)
          /\ err' = <<"failed to create output directory: ", "mkdir">>
          /\ pc' = ret
    /\ UNCHANGED <<inputs, config, env, envReads, locals, net, outFile, out, health, steps>>

\* os.Create opening the file without truncating it
CreateKeepsData(here, next, ret) ==
    /\ pc = here
    /\ \/ /\ outFile' = [exists |-> TRUE, data |-> outFile.data]
          /\ pc' = next
          /\ UNCHANGED err
       \/ /\ err' = <<"failed to create output file: ", "open">>
          /\ pc' = ret
          /\ UNCHANGED outFile
    /\ UNCHANGED <<inputs, config, env, envReads, locals, net, dirs, out, health, steps>>

\* outFile, err := os.Create(outputPath): creates or truncates.
Create(here, next, ret) ==
    /\ pc = here
    /\ \/ /\ outFile' = [exists |-> TRUE, data |-> <<>>]
          /\ pc' = next
          /\ UNCHANGED err
       \/ /\ err' = <<"failed to create output file: ", "open">>
          /\ pc' = ret
          /\ UNCHANGED outFile
    /\ UNCHANGED <<inputs, config, env, envReads, locals, net, dirs, out, health, steps>>

\* _, err = io.Copy(outFile, resp.Body); otel.Info(<complete>, {"output": outputPath}); return nil.
\* A failed copy leaves what was written before the failure.
Copy(here, ret, complete, outputPath) ==
    /\ pc = here
    /\ \/ /\ outFile' = [outFile EXCEPT !.data = outFile.data \o resp.body]
          /\ events' = Append(events, Event("info", complete, [output |-> outputPath]))
          /\ UNCHANGED err
       \/ \E k \in 0..Len(resp.body) :
          /\ k < Len(resp.body) \/ k = 0
          /\ outFile' = [outFile EXCEPT !.data = outFile.data \o SubSeq(resp.body, 1, k)]
          /\ err' = <<"failed to write output: ", "copy">>
          /\ UNCHANGED events
    /\ pc' = ret
    /\ UNCHANGED <<inputs, config, env, envReads, locals, net, dirs, stderr, stdout,
                   exitCode, health, steps>>

\* the error branch without its otel.Error call
FinishNoEvent(here, failed, outputPath) ==
    /\ pc = here
    /\ IF err # <<>>
         THEN /\ stderr' = Append(stderr, <<"ERROR: ">> \o err)
              /\ exitCode' = 1
              /\ UNCHANGED <<events, stdout>>
         ELSE /\ stdout' = Append(stdout, <<outputPath>>)
              /\ exitCode' = 0
              /\ UNCHANGED <<events, stderr>>
    /\ pc' = "exit"
    /\ UNCHANGED <<inputs, config, env, envReads, locals, net, err, disk, health, steps>>

\* err := op(...); if err != nil { otel.Error(<failed>, {"error": err.Error()});
\* "ERROR: %v" to stderr; os.Exit(1) }; fmt.Println(*output)
Finish(here, failed, outputPath) ==
    /\ pc = here
    /\ IF err # <<>>
         THEN /\ events' = Append(events, Event("error", failed, [error |-> err]))
              /\ stderr' = Append(stderr, <<"ERROR: ">> \o err)
              /\ exitCode' = 1
              /\ UNCHANGED stdout
         ELSE /\ stdout' = Append(stdout, <<outputPath>>)
              /\ exitCode' = 0
              /\ UNCHANGED <<events, stderr>>
    /\ pc' = "exit"
    /\ UNCHANGED <<inputs, config, env, envReads, locals, net, err, disk, health, steps>>

----------------------------------------------------------------------------
(* tts *)

\* cmdTTS: voiceID := *voice; if voiceID == "" { voiceID = getTTSVoiceID() }
cmdTTS_voice == ResolveVoice("cmdTTS", "tts_getAPIKey", TTS_VOICE)

\* textToSpeech: apiKey := getAPIKey()
textToSpeech_getAPIKey == getAPIKey("tts_getAPIKey", "tts_format")

\* textToSpeech: the format lookup
textToSpeech_format == CheckFormat("tts_format", "tts_request", "tts_return")

\* textToSpeech: json.Marshal (fails on a NaN float), http.NewRequest, headers,
\* otel.Info("tts_request"), client.Do
textToSpeech_request ==
    /\ pc = "tts_request"
    /\ IF params = "nan"
         THEN /\ err' = <<"failed to marshal request: ", "json: unsupported value">>
              /\ pc' = "tts_return"
              /\ UNCHANGED <<net, events, steps>>
         ELSE /\ events' = Append(events, Event("info", "tts_request",
                     [voice_id |-> voiceID, format |-> format, text_len |-> Len(Text)]))
              /\ ClientDo([method |-> "POST", path |-> "/text-to-speech/", voice |-> voiceID,
                           output_format |-> apiFormat, key |-> apiKey,
                           body |-> <<Text, defaultTTSModel>>],
                          "tts_status", "tts_return")
    /\ UNCHANGED <<inputs, config, env, envReads, locals, disk, stderr, stdout, exitCode, health>>

textToSpeech_status == CheckStatus("tts_status", "tts_mkdir", "tts_return")
textToSpeech_mkdir  == MkdirAll("tts_mkdir", "tts_create", "tts_return")
textToSpeech_create == Create("tts_create", "tts_copy", "tts_return")
textToSpeech_copy   == Copy("tts_copy", "tts_return", "tts_complete", getDefaultTTSOutput)

\* cmdTTS: the error branch and fmt.Println(*output)
cmdTTS_finish == Finish("tts_return", "tts_failed", getDefaultTTSOutput)

----------------------------------------------------------------------------
(* voice *)

\* cmdVoice without the os.Stat check of the input path
cmdVoice_noStat ==
    /\ pc = "cmdVoice"
    /\ pc' = "vc_voice"
    /\ UNCHANGED <<inputs, config, env, envReads, locals, net, err, disk, out, health, steps>>

\* cmdVoice: if _, err := os.Stat(inputPath); os.IsNotExist(err) { "Input file not found"; os.Exit(1) }
cmdVoice_stat ==
    /\ pc = "cmdVoice"
    /\ steps' = Append(steps, "stat")
    /\ IF srcState = "missing"
         THEN /\ stderr' = Append(stderr, <<"ERROR: Input file not found: ", "input">>)
              /\ exitCode' = 1
              /\ pc' = "exit"
              /\ UNCHANGED <<events, stdout>>
         ELSE pc' = "vc_voice" /\ UNCHANGED out
    /\ UNCHANGED <<inputs, config, env, envReads, locals, net, err, disk, health>>

\* cmdVoice: voiceID := *voice; if voiceID == "" { voiceID = getVoiceChangeID() }
cmdVoice_voice == ResolveVoice("vc_voice", "vc_getAPIKey", VC_VOICE)

voiceChange_getAPIKey == getAPIKey("vc_getAPIKey", "vc_format")
voiceChange_format    == CheckFormat("vc_format", "vc_open", "vc_return")

\* voiceChange: inputFile, err := os.Open(inputPath)
voiceChange_open ==
    /\ pc = "vc_open"
    /\ steps' = Append(steps, "open")
    /\ IF srcState \in {"file", "directory"}
         THEN srcOpen' = TRUE /\ pc' = "vc_request" /\ UNCHANGED err
         ELSE /\ err' = <<"failed to open input file: ", "open">>
              /\ pc' = "vc_return"
              /\ UNCHANGED srcOpen
    /\ UNCHANGED <<inputs, config, env, envReads, voiceID, apiKey, apiFormat, net, disk, out, health>>

\* voiceChange: multipart body (io.Copy of the input fails on a directory),
\* http.NewRequest, headers, otel.Info("voice_change_request"), client.Do
voiceChange_request ==
    /\ pc = "vc_request"
    /\ IF srcState = "directory"
         THEN /\ err' = <<"failed to copy audio data: ", "read">>
              /\ pc' = "vc_return"
              /\ UNCHANGED <<net, events, steps>>
         ELSE /\ events' = Append(events, Event("info", "voice_change_request",
                     [voice_id |-> voiceID, format |-> format, input |-> "input"]))
              /\ ClientDo([method |-> "POST", path |-> "/speech-to-speech/", voice |-> voiceID,
                           output_format |-> apiFormat, key |-> apiKey,
                           body |-> <<"audio", defaultVoiceModel>>],
                          "vc_status", "vc_return")
    /\ UNCHANGED <<inputs, config, env, envReads, locals, disk, stderr, stdout, exitCode, health>>

voiceChange_status == CheckStatus("vc_status", "vc_mkdir", "vc_return")
voiceChange_mkdir  == MkdirAll("vc_mkdir", "vc_create", "vc_return")
voiceChange_create == Create("vc_create", "vc_copy", "vc_return")
voiceChange_copy   == Copy("vc_copy", "vc_return", "voice_change_complete", getDefaultVoiceOutput)

\* cmdVoice: the error branch and fmt.Println(*output)
cmdVoice_finish == Finish("vc_return", "voice_change_failed", getDefaultVoiceOutput)

----------------------------------------------------------------------------
(* --health *)

\* checkHealth returning true for any 2xx status
HealthyOn2xx(r) == r.ok /\ r.status >= 200 /\ r.status < 300

\* if err != nil { return false }; return resp.StatusCode == 200
Healthy(r) == r.ok /\ r.status = 200

\* checkHealth(): loadEnv, the key ("" returns false without a request),
\* GET /user, the status.
checkHealth ==
    /\ pc = "checkHealth"
    /\ env' = LoadedEnv
    /\ envReads' = envReads \cup {API_KEY}
    /\ LET key == Getenv(LoadedEnv, API_KEY) IN
         IF key = ""
           THEN healthResult' = FALSE /\ UNCHANGED net
           ELSE /\ request' = [method |-> "GET", path |-> "/user", voice |-> "",
                               output_format |-> "", key |-> key, body |-> <<>>]
                /\ netCalls' = netCalls + 1
                /\ resp' \in Responses \cup {NoResponse}
                /\ healthResult' = Healthy(resp')
    /\ healthDone' = TRUE
    /\ pc' = "health_print"
    /\ UNCHANGED <<inputs, config, locals, err, disk, out, steps>>

\* main: if checkHealth() { "OK"; os.Exit(0) } else { "FAIL"; os.Exit(1) }
main_health ==
    /\ pc = "health_print"
    /\ stdout' = Append(stdout, <<IF healthResult THEN "OK" ELSE "FAIL">>)
    /\ exitCode' = IF healthResult THEN 0 ELSE 1
    /\ pc' = "exit"
    /\ UNCHANGED <<inputs, config, env, envReads, locals, net, err, disk, events, stderr,
                   health, steps>>

----------------------------------------------------------------------------
Next ==
    \/ main
    \/ cmdTTS_voice
    \/ textToSpeech_getAPIKey
    \/ textToSpeech_format
    \/ textToSpeech_request
    \/ textToSpeech_status
    \/ textToSpeech_mkdir
    \/ textToSpeech_create
    \/ textToSpeech_copy
    \/ cmdTTS_finish
    \/ cmdVoice_stat
    \/ cmdVoice_voice
    \/ voiceChange_getAPIKey
    \/ voiceChange_format
    \/ voiceChange_open
    \/ voiceChange_request
    \/ voiceChange_status
    \/ voiceChange_mkdir
    \/ voiceChange_create
    \/ voiceChange_copy
    \/ cmdVoice_finish
    \/ checkHealth
    \/ main_health

Spec == Init /\ [][Next]_vars

----------------------------------------------------------------------------
(* Vocabulary of the properties *)

Done == pc = "exit"
Op   == cmd \in {"tts", "voice"}

DefaultVoiceName == IF cmd = "tts" THEN TTS_VOICE ELSE VC_VOICE
CompleteName     == IF cmd = "tts" THEN "tts_complete" ELSE "voice_change_complete"
FailedName       == IF cmd = "tts" THEN "tts_failed" ELSE "voice_change_failed"
OutputPath       == IF cmd = "tts" THEN getDefaultTTSOutput ELSE getDefaultVoiceOutput

\* What configuration resolution yields for a name, from the start of the process.
Effective(n) == Getenv(loadEnv(env0, exeErr, exeFile, cwdFile), n)
KeyMissing   == Effective(API_KEY) = ""
VoiceMissing == voiceOpt = "" /\ Effective(DefaultVoiceName) = ""
Supported    == format \in {"opus", "mp3", "pcm"}

LastEvent == events[Len(events)]

Ran(step) == \E i \in DOMAIN steps : steps[i] = step

Contains(s, t) == \E i \in 0..(Len(s) - Len(t)) : SubSeq(s, i + 1, i + Len(t)) = t

DigitValue(c) == (CHOOSE d \in DOMAIN Digits : Digits[d] = c) - 1
RECURSIVE Atoi(_)
Atoi(ds) == IF ds = <<>> THEN 0
            ELSE 10 * Atoi(SubSeq(ds, 1, Len(ds) - 1)) + DigitValue(ds[Len(ds)])

\* The failures, as the process reports them on stderr.
MissingSetting(n) == exitCode = 1 /\ stderr = <<NotFoundLine(n)>>
SourceNotFound    == exitCode = 1 /\ stderr = << <<"ERROR: Input file not found: ", "input">> >>
Reported(prefix)  == exitCode = 1 /\ Len(stderr) = 1 /\ Len(stderr[1]) >= 2
                     /\ stderr[1][1] = "ERROR: " /\ stderr[1][2] = prefix
InputError        == SourceNotFound \/ Reported("failed to open input file: ")
UnsupportedFormat == Reported("unsupported format: ") /\ stderr[1][3] = format
PersistenceError  == \/ Reported("failed to create output directory: ")
                     \/ Reported("failed to create output file: ")
                     \/ Reported("failed to write output: ")

----------------------------------------------------------------------------
(* Missing credential *)

\* C1 as stated: with ELEVENLABS_API_KEY absent or empty, tts and voice end
\* with the missing-credential failure and no network call, whatever the
\* other inputs are.
C1_AsStated ==
    (Done /\ Op /\ KeyMissing) => (MissingSetting(API_KEY) /\ netCalls = 0)

\* C1 amended: with ELEVENLABS_API_KEY absent or empty, tts and voice never
\* make a network call and end with exit status 1; the failure reported is the
\* missing source path when voice is given one that does not exist, otherwise
\* the missing default voice when no override is given and no default is
\* configured, and otherwise the missing credential.
C1_NoCredential ==
    (Op /\ KeyMissing) =>
        /\ netCalls = 0
        /\ Done =>
             IF cmd = "voice" /\ srcState = "missing" THEN SourceNotFound
             ELSE IF VoiceMissing THEN MissingSetting(DefaultVoiceName)
             ELSE MissingSetting(API_KEY)

C1_Witness ==
    Done /\ cmd = "voice" /\ KeyMissing /\ srcState = "noperm" /\ ~Supported
         /\ MissingSetting(API_KEY) /\ netCalls = 0

----------------------------------------------------------------------------
(* Source path of voice *)

\* C2 as stated: a voice invocation whose source path does not exist or cannot
\* be opened ends with InputError and no network call, whatever the
\* credential, voice and format are.
C2_AsStated ==
    (Done /\ cmd = "voice" /\ srcState \in {"missing", "noperm"}) =>
        (InputError /\ netCalls = 0)

\* C2 amended: a voice invocation whose source path does not exist ends with
\* "Input file not found" and no network call, whatever the credential, voice
\* and format are; one whose source exists but cannot be opened makes no
\* network call either and ends with "failed to open input file" when the
\* voice, the credential and the format are all good, and with the failure of
\* the first of those three otherwise; every run that makes a network call
\* has opened the source file before.
C2_SourcePath ==
    cmd = "voice" =>
        /\ srcState \in {"missing", "noperm"} => netCalls = 0
        /\ (Done /\ srcState = "missing") => (SourceNotFound /\ steps = <<"stat">>)
        /\ (Done /\ srcState = "noperm") =>
             IF VoiceMissing THEN MissingSetting(VC_VOICE)
             ELSE IF KeyMissing THEN MissingSetting(API_KEY)
             ELSE IF ~Supported THEN UnsupportedFormat
             ELSE Reported("failed to open input file: ")
        /\ netCalls > 0 => (srcOpen /\ Ran("open"))

C2_Witness ==
    Done /\ cmd = "voice" /\ srcState = "missing" /\ KeyMissing /\ ~Supported
         /\ SourceNotFound /\ netCalls = 0

----------------------------------------------------------------------------
(* Success *)

\* C3: when the service answers 200 with body B and neither MkdirAll, Create
\* nor Copy fails, tts and voice end with exit status 0 having printed the
\* output path, the output file holds exactly B (whatever it held before) and
\* every ancestor directory of the output path exists.
C3_RoundTrip ==
    (Done /\ Op /\ netCalls = 1 /\ resp.ok /\ resp.status = 200 /\ ~PersistenceError) =>
        /\ exitCode = 0
        /\ stdout = << <<OutputPath>> >>
        /\ stderr = <<>>
        /\ outFile = [exists |-> TRUE, data |-> resp.body]
        /\ dirs = PathDepth

C3_Witness ==
    Done /\ cmd = "tts" /\ exitCode = 0 /\ resp.status = 200 /\ Len(resp.body) > 0
         /\ outFile.data = resp.body

----------------------------------------------------------------------------
(* Non-200 responses *)

\* C4: for a response with status S other than 200 and body D, tts and voice
\* end with exit status 1 and nothing on stdout; the error is "API error"
\* followed by the decimal digits of S and contains D, and so do the stderr
\* line and the failure event.
C4_APIError ==
    (Done /\ Op /\ netCalls = 1 /\ resp.ok /\ resp.status # 200) =>
        /\ exitCode = 1
        /\ stdout = <<>>
        /\ Len(err) >= 4
        /\ err[1] = "API error "
        /\ Atoi(SubSeq(err, 2, 4)) = resp.status
        /\ Contains(SubSeq(err, 5, Len(err)), resp.body)
        /\ Len(stderr) = 1 /\ Contains(stderr[1], resp.body)
        /\ events # <<>>
        /\ LastEvent = Event("error", FailedName, [error |-> err])

C4_Witness ==
    Done /\ cmd = "voice" /\ resp.ok /\ resp.status = 401 /\ resp.body = <<"4">>
         /\ exitCode = 1

----------------------------------------------------------------------------
(* Voice override *)

\* C5: when -v/--voice is given, the default voice of the operation
\* (ELEVENLABS_TTS_VOICE_ID for tts, ELEVENLABS_VOICE_CHANGE_ID for voice) is
\* never passed to os.Getenv, no failure names it, and the voice of the local
\* voiceID and of every request sent is the override.
C5_OverrideSkipsDefault ==
    (Op /\ voiceOpt # "") =>
        /\ DefaultVoiceName \notin envReads
        /\ ~MissingSetting(DefaultVoiceName)
        /\ \A i \in DOMAIN events : events[i] # NotFoundEvent(DefaultVoiceName)
        /\ Ran("voice") => voiceID = voiceOpt
        /\ netCalls > 0 => request.voice = voiceOpt

C5_Witness ==
    Done /\ cmd = "tts" /\ voiceOpt # "" /\ Effective(TTS_VOICE) = "" /\ netCalls = 1
         /\ request.voice = voiceOpt /\ exitCode = 0

----------------------------------------------------------------------------
(* Liveness probe *)

\* C6: checkHealth returns true only when its GET on /user was answered with
\* status 200; on any other status, on a transport failure and with the
\* credential missing (when it sends nothing) it returns false; when it
\* returns the process is still running and nothing was logged or written.
C6_Health ==
    healthDone =>
        /\ healthResult <=> (netCalls = 1 /\ resp.ok /\ resp.status = 200
                             /\ request.method = "GET" /\ request.path = "/user")
        /\ KeyMissing => (~healthResult /\ netCalls = 0)
        /\ pc = "health_print" => (exitCode = -1 /\ events = <<>> /\ stderr = <<>> /\ stdout = <<>>)
        /\ Done => exitCode = (IF healthResult THEN 0 ELSE 1)

C6_Witness ==
    healthDone /\ pc = "health_print" /\ ~healthResult /\ resp.ok /\ resp.status = 204

----------------------------------------------------------------------------
(* Formats *)

----------------------------------------------------------------------------
(* Order of the steps *)

ClaimedRank(step) ==
    CASE step = "credential" -> 1
      [] step = "voice"      -> 2
      [] step = "format"     -> 3
      [] step = "open"       -> 4
      [] step = "network"    -> 5

\* C8 as stated: the steps run in the order credential, voice, format, source
\* open (voice only), network, and the failure reported is that of the first
\* failing step in this order: with credential and default voice both missing
\* and no override, the credential (the existence check of the source path,
\* which the claim does not list, is left out of both parts).
C8_AsStated ==
    /\ \A i, j \in DOMAIN steps :
         (i < j /\ steps[i] # "stat" /\ steps[j] # "stat") =>
             ClaimedRank(steps[i]) < ClaimedRank(steps[j])
    /\ (Done /\ Op /\ KeyMissing /\ VoiceMissing /\ srcState # "missing") =>
           MissingSetting(API_KEY)

StepOrder ==
    IF cmd = "tts" THEN <<"voice", "credential", "format", "network">>
    ELSE <<"stat", "voice", "credential", "format", "open", "network">>

\* The step that fails first in StepOrder for the inputs given ("" when none does).
FirstFailing ==
    IF cmd = "voice" /\ srcState = "missing" THEN "stat"
    ELSE IF VoiceMissing THEN "voice"
    ELSE IF KeyMissing THEN "credential"
    ELSE IF ~Supported THEN "format"
    ELSE IF cmd = "voice" /\ srcState = "noperm" THEN "open"
    ELSE ""

\* C8 amended: the steps run in the order (0) for voice only, existence check
\* of the source path, (1) voice resolution, (2) credential resolution,
\* (3) format validation, (4) for voice only, source file open, (5) network
\* request; a step that fails ends the invocation so no later step runs, and
\* the failure reported is that of the earliest failing step in this order
\* (with the credential and the default voice both absent and no override,
\* the reported missing setting is the default voice).
C8_StepOrder ==
    Op =>
        /\ Len(steps) <= Len(StepOrder)
        /\ steps = SubSeq(StepOrder, 1, Len(steps))
        /\ (FirstFailing # "" /\ Ran(FirstFailing)) =>
             /\ steps[Len(steps)] = FirstFailing
             /\ pc \in {"exit", "tts_return", "vc_return"}
        /\ Done =>
             CASE FirstFailing = "stat"       -> SourceNotFound
               [] FirstFailing = "voice"      -> MissingSetting(DefaultVoiceName)
               [] FirstFailing = "credential" -> MissingSetting(API_KEY)
               [] FirstFailing = "format"     -> UnsupportedFormat
               [] FirstFailing = "open"       -> Reported("failed to open input file: ")
               [] OTHER -> ~(\/ SourceNotFound \/ UnsupportedFormat
                             \/ Reported("failed to open input file: ")
                             \/ \E n \in EnvNames : MissingSetting(n))

C8_Witness ==
    Done /\ cmd = "tts" /\ KeyMissing /\ VoiceMissing /\ MissingSetting(TTS_VOICE)
         /\ steps = <<"voice">>

----------------------------------------------------------------------------
(* Events *)

\* C9 as stated: every tts or voice invocation emits, before it ends, the
\* event of its outcome: on success the completion event carrying voice id,
\* format and a size metric, on every failure the failure event carrying the
\* error text.
C9_AsStated ==
    (Done /\ Op) =>
        /\ events # <<>>
        /\ IF exitCode = 0
             THEN /\ LastEvent.name = <<CompleteName>>
                  /\ {"voice_id", "format"} \subseteq DOMAIN LastEvent.attrs
             ELSE /\ LastEvent.name = <<FailedName>>
                  /\ "error" \in DOMAIN LastEvent.attrs

\* C9 amended: a tts or voice invocation that ends with exit status 0 has
\* emitted the request event (voice id, format, and text length or input
\* path) and then, last, the completion event, which carries the output path
\* only; one that ends because textToSpeech or voiceChange returned an error
\* (unsupported format, serialization, source open or read, network, API,
\* persistence) has emitted last the failure event carrying the error text;
\* one that ends on a missing setting has emitted only the "<NAME> not found"
\* error event and no failure event; one that ends on a source path that does
\* not exist has emitted no event.
C9_Events ==
    (Done /\ Op) =>
        IF exitCode = 0
          THEN /\ Len(events) = 2
               /\ events[1].name = <<IF cmd = "tts" THEN "tts_request" ELSE "voice_change_request">>
               /\ events[1].attrs.voice_id = voiceID
               /\ events[1].attrs.format = format
               /\ LastEvent = Event("info", CompleteName, [output |-> OutputPath])
        ELSE IF err # <<>>
          THEN /\ events # <<>>
               /\ LastEvent = Event("error", FailedName, [error |-> err])
               /\ stderr = << <<"ERROR: ">> \o err >>
        ELSE IF SourceNotFound
          THEN events = <<>>
        ELSE \E n \in {API_KEY, DefaultVoiceName} :
               /\ MissingSetting(n)
               /\ events = <<NotFoundEvent(n)>>

C9_Witness ==
    Done /\ cmd = "voice" /\ exitCode = 1 /\ resp.ok /\ resp.status = 401
         /\ LastEvent.name = <<"voice_change_failed">>

----------------------------------------------------------------------------
(* Precedence of the configuration sources *)

Defines(file, n) == file.exists /\ file.vars[n] # Absent

\* C10 as stated: the executable's .env is loaded first and the working
\* directory's second, and when several sources define a name the load that
\* happens last and defines it determines the value read (here for names the
\* process environment does not have).
C10_AsStated ==
    \A n \in envReads :
        (env0[n] = Absent /\ Defines(cwdFile, n)) => Getenv(env, n) = cwdFile.vars[n]

\* C10 amended: configuration resolution loads the environment file next to
\* the executable first and the one in the working directory second, then
\* reads the process environment; a name the process environment already has
\* (even with an empty value) keeps its value, and otherwise the load that
\* happens first and defines the name determines the value read: the
\* executable's file, then the working directory's.
C10_Precedence ==
    \A n \in envReads :
        Getenv(env, n) =
            IF env0[n] # Absent THEN env0[n]
            ELSE IF ~exeErr /\ Defines(exeFile, n) THEN exeFile.vars[n]
            ELSE IF Defines(cwdFile, n) THEN cwdFile.vars[n]
            ELSE ""

C10_Witness ==
    /\ API_KEY \in envReads /\ env0[API_KEY] = Absent
    /\ Defines(exeFile, API_KEY) /\ Defines(cwdFile, API_KEY)
    /\ exeFile.vars[API_KEY] # cwdFile.vars[API_KEY]
    /\ apiKey = exeFile.vars[API_KEY]

====
